---- MODULE Spec2Model ----
(***************************************************************************)
(* PermissionManager (permission-management/python-sdk/permission-manager  *)
(* .py): privilege escalation, consent, subprocess execution and the audit *)
(* trail.  One PermissionManager serves the callers of Callers; each call  *)
(* of execute_with_escalation is cut at its blocking points (the consent   *)
(* read, Popen, communicate).  The environment - the consent channel, the  *)
(* process-spawn primitive and the log store - is chosen                   *)
(* nondeterministically.                                                   *)
(*                                                                         *)
(* Spec:        calls follow one another, the environment is unrestricted. *)
(* SpecOverlap: the calls of two callers overlap; Popen succeeds and the   *)
(*              subprocess exits within its timeout.                       *)
(***************************************************************************)
EXTENDS Integers, Sequences, FiniteSets, TLC

\* ------------------------------------------------------------------ bounds
MaxCalls == 2      \* calls to execute_with_escalation started in one run
MaxPrompts == 1    \* unrecognized answers one consent prompt may receive

Callers == {"a", "b"}

\* --------------------------------------------------------------- constants
None == "None"

BASIC == "basic"
ELEVATED == "elevated"
ADMINISTRATIVE == "administrative"
PermissionLevel == {BASIC, ELEVATED, ADMINISTRATIVE}

SUCCESS == "success"
PERMISSION_DENIED == "permission_denied"
ESCALATION_FAILED == "escalation_failed"
OPERATION_FAILED == "operation_failed"
USER_CANCELLED == "user_cancelled"
OperationResult ==
    {SUCCESS, PERMISSION_DENIED, ESCALATION_FAILED, OPERATION_FAILED, USER_CANCELLED}

DefaultTimeout == 300

\* PrivilegedOperation(command, description, permission_level,
\*                     requires_user_approval, timeout, working_directory, environment)
\* A mapping of environment variables is a set of <<name, value>> pairs; the
\* absent overlay (None, falsy like the empty dict at "if operation.environment")
\* is the empty one.
NoEnvironment == {}

PrivilegedOperation(command, description, level, approval) ==
    [command |-> command, description |-> description, permission_level |-> level,
     requires_user_approval |-> approval, timeout |-> DefaultTimeout,
     working_directory |-> None, environment |-> NoEnvironment]

\* PrivilegedOperation(..., environment=environment)
WithEnvironment(operation, environment) ==
    [operation EXCEPT !.environment = environment]

\* os.environ of the process
os_environ == { <<"PATH", "/usr/bin">>, <<"LANG", "en_US">> }

\* dict.update
Update(env, overlay) ==
    { p \in env : \A q \in overlay : q[1] # p[1] } \cup overlay

\* The operations the callers issue.
Operations ==
    { PrivilegedOperation(<<"ls", "/tmp">>, "list", BASIC, TRUE),
      WithEnvironment(
          PrivilegedOperation(<<"chmod", "755", "/tmp/x">>, "chmod", ELEVATED, TRUE),
          { <<"LANG", "C">> }),
      PrivilegedOperation(<<"crontab", "-l">>, "cron", ADMINISTRATIVE, FALSE) }

current_user == "alice"

\* ------------------------------------------------------------- environment
\* Lines the consent channel may deliver to input(), as character sequences.
Responses ==
    { <<"y">>, <<" ", "Y", "e", "s", " ">>, <<"n">>, <<"N", "O">>, <<>>, <<" ">>,
      <<"m">>, <<"y", "e">> }

\* What Popen(...) does: returns a process, or raises.
SpawnOutcomes == {"ok", "PermissionError", "FileNotFoundError"}

\* What a subprocess that exits within the timeout leaves behind.
ProcessExits ==
    { [returncode |-> 0, stdout |-> "done", stderr |-> ""],
      [returncode |-> 1, stdout |-> "", stderr |-> "boom"],
      [returncode |-> -9, stdout |-> "", stderr |-> ""] }

\* What open(log_file, 'a') / f.write does: succeeds, or raises.
WriteOutcomes == {"ok", "OSError"}

\* Subclasses of Exception that the environment raises.
Exceptions ==
    {"PermissionError", "FileNotFoundError", "OSError", "TimeoutExpired",
     "UnicodeDecodeError", "EOFError"}

VARIABLES
    log,                 \* the audit log file: a sequence of lines
    session_operations,  \* self.session_operations
    is_privileged,       \* self.is_privileged
    file_handler,        \* basicConfig attached FileHandler(self.log_file) to the root logger
    clock,               \* datetime.now()
    calls,               \* calls started so far (bounded by MaxCalls)
    frame,               \* per caller: the activation of execute_with_escalation
    returned,            \* ids of the calls that returned to their caller
    write_failed,        \* ids of the calls whose audit write raised
    overlapped,          \* some call started while another was in progress
    argv,                \* the command handed to analyze_command_permissions
    level,               \* what analyze_command_permissions returned for argv
    gate,                \* the activation of a direct call of request_permission
    store,               \* the text of a log file read by get_audit_summary
    written,             \* per line of store: the entry _log_operation wrote, or None
    summary,             \* what get_audit_summary returned last
    view,                \* the list get_session_history returned last
    wrapper              \* the activation of a convenience wrapper of the manager

\* The state of the manager and of its calls of execute_with_escalation
manager == <<log, session_operations, is_privileged, file_handler, clock, calls,
             frame, returned, write_failed, overlapped>>

\* The state used by the other operations
aux == <<argv, level, gate, store, written, summary, view, wrapper>>

vars == <<manager, aux>>

\* ------------------------------------------------------------ pure helpers
\* ' '.join(command)
RECURSIVE Join(_)
Join(command) ==
    IF command = <<>> THEN ""
    ELSE IF Len(command) = 1 THEN command[1]
    ELSE command[1] \o " " \o Join(Tail(command))

\* str.strip(): drop leading and trailing whitespace
IsSpace(ch) == ch \in {" ", "\t"}

RECURSIVE LStrip(_)
LStrip(s) == IF s # <<>> /\ IsSpace(Head(s)) THEN LStrip(Tail(s)) ELSE s

RECURSIVE RStrip(_)
RStrip(s) ==
    IF s # <<>> /\ IsSpace(s[Len(s)]) THEN RStrip(SubSeq(s, 1, Len(s) - 1)) ELSE s

Strip(s) == RStrip(LStrip(s))

\* str.lower() on the characters the consent channel delivers
UpperCase ==
    <<"A", "B", "C", "D", "E", "F", "G", "H", "I", "J", "K", "L", "M",
      "N", "O", "P", "Q", "R", "S", "T", "U", "V", "W", "X", "Y", "Z">>

LowerCase ==
    <<"a", "b", "c", "d", "e", "f", "g", "h", "i", "j", "k", "l", "m",
      "n", "o", "p", "q", "r", "s", "t", "u", "v", "w", "x", "y", "z">>

LowerChar(ch) ==
    IF \E i \in DOMAIN UpperCase : UpperCase[i] = ch
    THEN LowerCase[CHOOSE i \in DOMAIN UpperCase : UpperCase[i] = ch]
    ELSE ch

Lower(s) == [i \in 1..Len(s) |-> LowerChar(s[i])]

\* One pass of the loop of request_permission: response = input(...).strip().lower()
ParseResponse(line) ==
    LET response == Lower(Strip(line)) IN
    IF response \in {<<"y">>, <<"y", "e", "s">>} THEN "yes"
    ELSE IF response \in {<<"n">>, <<"n", "o">>, <<>>} THEN "no"
    ELSE "again"

\* An accessor handing out the manager's own list.
get_session_history_Shared(history) ==
    [held |-> TRUE, shared |-> TRUE, mutated |-> FALSE, items |-> history]

\* "return self.session_operations.copy()": a new list with the same entries
get_session_history(history) ==
    [held |-> TRUE, shared |-> FALSE, mutated |-> FALSE, items |-> history]

\* The flag test letting only BASIC operations through without a prompt.
ReturnsWithoutPrompt_BasicOnly(operation) ==
    ~operation.requires_user_approval /\ operation.permission_level = BASIC

\* "if not operation.requires_user_approval: return True"
ReturnsWithoutPrompt(operation) == ~operation.requires_user_approval

\* The print calls of request_permission before its loop: the four header
\* lines and the warning of the ELEVATED and ADMINISTRATIVE tiers
HeaderPrints(operation) ==
    4 + (IF operation.permission_level \in {ADMINISTRATIVE, ELEVATED} THEN 1 ELSE 0)

\* The escalation check with the privilege test dropped.
check_permission_required_NoPrivilegeTest(operation) ==
    operation.permission_level # BASIC

check_permission_required(operation) ==
    IF operation.permission_level = BASIC THEN FALSE
    ELSE IF is_privileged THEN FALSE
    ELSE TRUE

\* The cancel test with the gate's answer ignored.
ConsentDeclined_Never(needs_escalation, granted) == FALSE

\* "if needs_escalation and not self.request_permission(operation)"
ConsentDeclined(needs_escalation, granted) == needs_escalation /\ ~granted

\* command = operation.command.copy(); prefixed with sudo for elevation
PrepareCommand(operation, needs_escalation) ==
    IF needs_escalation /\ ~is_privileged
    THEN <<"sudo">> \o operation.command
    ELSE operation.command

\* env = os.environ.copy(), updated with the operation's overlay when it has one
PrepareEnvironment(operation) ==
    IF operation.environment # NoEnvironment
    THEN Update(os_environ, operation.environment)
    ELSE os_environ

\* A preparation that inserts the prefix into the operation's own list.
PreparedOperation_InPlace(operation, needs_escalation) ==
    [operation EXCEPT !.command = PrepareCommand(operation, needs_escalation)]

\* The caller's operation object once the command and the environment are
\* prepared: command is built from operation.command.copy() and env from
\* os.environ.copy(), so no field of the operation is written
PreparedOperation(operation, needs_escalation) == operation

\* The exit test taking every non-negative code for success.
ExitResult_NonNegative(returncode) ==
    IF returncode >= 0 THEN SUCCESS ELSE OPERATION_FAILED

\* "if process.returncode == 0"
ExitResult(returncode) ==
    IF returncode = 0 THEN SUCCESS ELSE OPERATION_FAILED

DefaultSuccessMessage == "Operation completed successfully"

FailedMessage(returncode, stderr) ==
    "Command failed with return code " \o ToString(returncode) \o ": " \o stderr

ExitMessage(exit) ==
    IF exit.returncode = 0
    THEN (IF exit.stdout # "" THEN exit.stdout ELSE DefaultSuccessMessage)
    ELSE FailedMessage(exit.returncode, exit.stderr)

TimeoutMessage(operation) ==
    "Operation timed out after " \o ToString(operation.timeout) \o " seconds"

\* The handler chain with PermissionError falling into the generic handler.
ExceptResult_Generic(e) == OPERATION_FAILED

\* The handler chain reporting a failed Popen as a failed escalation.
ExceptResult_EscalationFailed(e) ==
    IF e = "TimeoutExpired" THEN OPERATION_FAILED
    ELSE IF e = "PermissionError" THEN ESCALATION_FAILED
    ELSE OPERATION_FAILED

\* The except clauses of the try block, in order
ExceptResult(e) ==
    IF e = "TimeoutExpired" THEN OPERATION_FAILED
    ELSE IF e = "PermissionError" THEN PERMISSION_DENIED
    ELSE OPERATION_FAILED

ExceptMessage(e, operation) ==
    IF e = "TimeoutExpired" THEN TimeoutMessage(operation)
    ELSE IF e = "PermissionError" THEN "Permission denied - unable to execute command"
    ELSE "Unexpected error: " \o e

\* AuditEntry(...) as built by _log_operation; now is datetime.now() at that point
AuditEntry(operation, result, message, start_time, now) ==
    [timestamp |-> start_time,
     operation |-> Join(operation.command),
     permission_level |-> operation.permission_level,
     result |-> result,
     user |-> current_user,
     details |-> [description |-> operation.description,
                  duration_seconds |-> now - start_time,
                  message |-> message,
                  working_directory |-> operation.working_directory]]

\* json.dumps(log_entry) + '\n': one line holding one JSON object
LogEntry(audit_entry) ==
    [kind |-> "json",
     timestamp |-> audit_entry.timestamp,
     operation |-> audit_entry.operation,
     permission_level |-> audit_entry.permission_level,
     result |-> audit_entry.result,
     user |-> audit_entry.user,
     details |-> audit_entry.details]

\* A line written by the logging FileHandler: '%(asctime)s - %(levelname)s - %(message)s'
TextLine(levelname, message) ==
    [kind |-> "text", levelname |-> levelname, message |-> message]

\* A write that puts the line at the front of the file.
WriteLine_Front(file, line) == <<line>> \o file

\* open(path, 'a') ... f.write(line)
WriteLine(file, line) == Append(file, line)

\* self.logger.info / self.logger.error: the root logger's FileHandler, when
\* basicConfig attached one, writes to the audit log file itself
LoggerEmit(file, levelname, message) ==
    IF file_handler THEN WriteLine(file, TextLine(levelname, message)) ELSE file

\* The except clause catching nothing but a missing file.
LogWriteCaught_MissingFileOnly(e) == e = "FileNotFoundError"

\* "except Exception as e" around the audit write
LogWriteCaught(e) == e \in Exceptions

\* A recorder that skips the session history and the file for cancelled operations.
Recorded_NotCancelled(result) == result # USER_CANCELLED

\* _log_operation is called on every path that returns
Recorded(result) == TRUE

\* ------------------------------------------------------------------- json
\* Text is a sequence of characters.  A JSON value is a record: t is its type
\* (str, num, lit, obj, arr), s the characters of a string, or the token of a
\* number or of null/true/false, k the keys of an object in order and v the
\* values of an object or an array.
JStr(s) == [t |-> "str", s |-> s, k |-> <<>>, v |-> <<>>]
JNum(s) == [t |-> "num", s |-> s, k |-> <<>>, v |-> <<>>]
JLit(s) == [t |-> "lit", s |-> s, k |-> <<>>, v |-> <<>>]
JObj(k, v) == [t |-> "obj", s |-> <<>>, k |-> k, v |-> v]
JArr(v) == [t |-> "arr", s |-> <<>>, k |-> <<>>, v |-> v]
JNull == JLit(<<"n", "u", "l", "l">>)

RECURSIVE Flatten(_)
\* ''.join(parts)
Flatten(parts) ==
    IF parts = <<>> THEN <<>> ELSE Head(parts) \o Flatten(Tail(parts))

\* A string encoder that copies every character as it is.
EscapeChar_Raw(ch) == <<ch>>

\* json.dumps of one character of a string (json.encoder ESCAPE_DCT)
EscapeChar(ch) ==
    CASE ch = "\"" -> <<"\\", "\"">>
      [] ch = "\\" -> <<"\\", "\\">>
      [] ch = "\n" -> <<"\\", "n">>
      [] ch = "\t" -> <<"\\", "t">>
      [] OTHER -> <<ch>>

DumpsString(s) ==
    <<"\"">> \o Flatten([i \in 1..Len(s) |-> EscapeChar(s[i])]) \o <<"\"">>

RECURSIVE Dumps(_)
RECURSIVE DumpsItems(_, _)
\* The members of an object or the items of an array, separated by ', '
DumpsItems(value, i) ==
    LET item == IF value.t = "obj"
                THEN DumpsString(value.k[i]) \o <<":", " ">> \o Dumps(value.v[i])
                ELSE Dumps(value.v[i])
    IN IF i > Len(value.v) THEN <<>>
       ELSE IF i = Len(value.v) THEN item
       ELSE item \o <<",", " ">> \o DumpsItems(value, i + 1)

\* json.dumps(value) with the default separators
Dumps(value) ==
    CASE value.t = "str" -> DumpsString(value.s)
      [] value.t = "obj" -> <<"{">> \o DumpsItems(value, 1) \o <<"}">>
      [] value.t = "arr" -> <<"[">> \o DumpsItems(value, 1) \o <<"]">>
      [] OTHER -> value.s

\* The character of text at position i, "" past its end
At(text, i) == IF i >= 1 /\ i <= Len(text) THEN text[i] ELSE ""

Digits == {"0", "1", "2", "3", "4", "5", "6", "7", "8", "9"}

JsonSpace == {" ", "\t", "\n", "\r"}

\* The result of a decoding step: ok, the value, and the position after it.
Decoded(value, next) == [ok |-> TRUE, val |-> value, next |-> next]
JSONDecodeError == [ok |-> FALSE, val |-> JNull, next |-> 0]

RECURSIVE SkipSpace(_, _)
SkipSpace(text, i) ==
    IF At(text, i) \in JsonSpace THEN SkipSpace(text, i + 1) ELSE i

RECURSIVE ScanDigits(_, _)
\* The position after the run of digits starting at i
ScanDigits(text, i) ==
    IF At(text, i) \in Digits THEN ScanDigits(text, i + 1) ELSE i

RECURSIVE ScanString(_, _, _)
\* json.decoder.scanstring from position i, inside the quotes; acc is the
\* string decoded so far
ScanString(text, i, acc) ==
    LET c == At(text, i)
        d == At(text, i + 1)
    IN IF c = "" THEN JSONDecodeError
       ELSE IF c = "\"" THEN Decoded(JStr(acc), i + 1)
       ELSE IF c \in {"\n", "\t", "\r"} THEN JSONDecodeError
       ELSE IF c # "\\" THEN ScanString(text, i + 1, Append(acc, c))
       ELSE IF d \in {"\"", "\\", "/"} THEN ScanString(text, i + 2, Append(acc, d))
       ELSE IF d = "n" THEN ScanString(text, i + 2, Append(acc, "\n"))
       ELSE IF d = "t" THEN ScanString(text, i + 2, Append(acc, "\t"))
       ELSE IF d = "r" THEN ScanString(text, i + 2, Append(acc, "\r"))
       ELSE JSONDecodeError

\* A number: -? (0 | [1-9][0-9]*) (. [0-9]+)?
ScanNumber(text, i) ==
    LET first == IF At(text, i) = "-" THEN i + 1 ELSE i
        int_end == IF At(text, first) = "0" THEN first + 1 ELSE ScanDigits(text, first)
        frac_end == IF At(text, int_end) = "." /\ At(text, int_end + 1) \in Digits
                    THEN ScanDigits(text, int_end + 1)
                    ELSE int_end
    IN IF int_end = first THEN JSONDecodeError
       ELSE Decoded(JNum(SubSeq(text, i, frac_end - 1)), frac_end)

\* null, true, false
ScanLiteral(text, i) ==
    LET word(w) == /\ i >= 1
                   /\ i + Len(w) - 1 <= Len(text)
                   /\ SubSeq(text, i, i + Len(w) - 1) = w
        null == <<"n", "u", "l", "l">>
        true == <<"t", "r", "u", "e">>
        false == <<"f", "a", "l", "s", "e">>
    IN IF word(null) THEN Decoded(JLit(null), i + 4)
       ELSE IF word(true) THEN Decoded(JLit(true), i + 4)
       ELSE IF word(false) THEN Decoded(JLit(false), i + 5)
       ELSE JSONDecodeError

RECURSIVE ScanValue(_, _)
RECURSIVE ScanMembers(_, _, _, _)
RECURSIVE ScanItems(_, _, _)
\* json.decoder.JSONObject after a '{' or a ',': i is at a key; k and v are
\* the members decoded so far
ScanMembers(text, i, k, v) ==
    LET key == IF At(text, i) = "\"" THEN ScanString(text, i + 1, <<>>)
               ELSE JSONDecodeError
        colon == SkipSpace(text, key.next)
        value == IF key.ok /\ At(text, colon) = ":"
                 THEN ScanValue(text, SkipSpace(text, colon + 1))
                 ELSE JSONDecodeError
        after == SkipSpace(text, value.next)
    IN IF ~value.ok THEN JSONDecodeError
       ELSE IF At(text, after) = "}"
            THEN Decoded(JObj(Append(k, key.val.s), Append(v, value.val)), after + 1)
       ELSE IF At(text, after) = ","
            THEN ScanMembers(text, SkipSpace(text, after + 1),
                             Append(k, key.val.s), Append(v, value.val))
       ELSE JSONDecodeError

\* json.decoder.JSONArray after a '[' or a ',': i is at an item
ScanItems(text, i, v) ==
    LET value == ScanValue(text, i)
        after == SkipSpace(text, value.next)
    IN IF ~value.ok THEN JSONDecodeError
       ELSE IF At(text, after) = "]" THEN Decoded(JArr(Append(v, value.val)), after + 1)
       ELSE IF At(text, after) = ","
            THEN ScanItems(text, SkipSpace(text, after + 1), Append(v, value.val))
       ELSE JSONDecodeError

\* json.scanner: one value starting at position i
ScanValue(text, i) ==
    LET c == At(text, i) IN
    IF c = "\"" THEN ScanString(text, i + 1, <<>>)
    ELSE IF c = "{"
         THEN (IF At(text, SkipSpace(text, i + 1)) = "}"
               THEN Decoded(JObj(<<>>, <<>>), SkipSpace(text, i + 1) + 1)
               ELSE ScanMembers(text, SkipSpace(text, i + 1), <<>>, <<>>))
    ELSE IF c = "["
         THEN (IF At(text, SkipSpace(text, i + 1)) = "]"
               THEN Decoded(JArr(<<>>), SkipSpace(text, i + 1) + 1)
               ELSE ScanItems(text, SkipSpace(text, i + 1), <<>>))
    ELSE IF c = "-" \/ c \in Digits THEN ScanNumber(text, i)
    ELSE ScanLiteral(text, i)

\* json.loads(text): one value with nothing but whitespace around it, or
\* JSONDecodeError
Loads(text) ==
    LET value == ScanValue(text, SkipSpace(text, 1)) IN
    IF value.ok /\ SkipSpace(text, value.next) = Len(text) + 1 THEN value
    ELSE JSONDecodeError

\* e[key] for a decoded value: subscriptable means e is a dict holding key
HasKey(e, key) == e.t = "obj" /\ \E i \in 1..Len(e.k) : e.k[i] = key

\* The value of the last member of e named key
Get(e, key) ==
    e.v[CHOOSE i \in 1..Len(e.k) :
            e.k[i] = key /\ \A j \in (i + 1)..Len(e.k) : e.k[j] # key]

\* ------------------------------------------------------ the log file as text
\* ' '.join(command) on text
RECURSIVE JoinText(_)
JoinText(command) ==
    IF command = <<>> THEN <<>>
    ELSE IF Len(command) = 1 THEN command[1]
    ELSE command[1] \o <<" ">> \o JoinText(Tail(command))

\* The enum values and dictionary keys get_audit_summary and _log_operation
\* spell out
BasicText == <<"b", "a", "s", "i", "c">>
ElevatedText == <<"e", "l", "e", "v", "a", "t", "e", "d">>
AdministrativeText == <<"a", "d", "m", "i", "n", "i", "s", "t", "r", "a",
                                "t", "i", "v", "e">>
SuccessText == <<"s", "u", "c", "c", "e", "s", "s">>
OperationFailedText == <<"o", "p", "e", "r", "a", "t", "i", "o", "n", "_",
                                "f", "a", "i", "l", "e", "d">>
UserCancelledText == <<"u", "s", "e", "r", "_", "c", "a", "n", "c", "e",
                                "l", "l", "e", "d">>
TimestampKey == <<"t", "i", "m", "e", "s", "t", "a", "m", "p">>
OperationKey == <<"o", "p", "e", "r", "a", "t", "i", "o", "n">>
PermissionLevelKey == <<"p", "e", "r", "m", "i", "s", "s", "i", "o", "n",
                                "_", "l", "e", "v", "e", "l">>
ResultKey == <<"r", "e", "s", "u", "l", "t">>
UserKey == <<"u", "s", "e", "r">>
DetailsKey == <<"d", "e", "t", "a", "i", "l", "s">>
DescriptionKey == <<"d", "e", "s", "c", "r", "i", "p", "t", "i", "o",
                                "n">>
DurationKey == <<"d", "u", "r", "a", "t", "i", "o", "n", "_", "s",
                                "e", "c", "o", "n", "d", "s">>
MessageKey == <<"m", "e", "s", "s", "a", "g", "e">>
WorkingDirectoryKey == <<"w", "o", "r", "k", "i", "n", "g", "_", "d", "i",
                                "r", "e", "c", "t", "o", "r", "y">>

\* AuditEntry(...) of _log_operation with its strings as text; timestamp is
\* start_time.isoformat(), duration the float of total_seconds() and
\* working_directory a string or None, as the JSON values json.dumps makes of them
AuditText(timestamp, command, permission_level, result, description, duration, message, cwd) ==
    [timestamp |-> timestamp,
     operation |-> JoinText(command),
     permission_level |-> permission_level,
     result |-> result,
     user |-> <<"a", "l", "i", "c", "e">>,
     details |-> JObj(<<DescriptionKey, DurationKey, MessageKey, WorkingDirectoryKey>>,
                      <<JStr(description), JNum(duration), JStr(message),
                        cwd>>)]

\* Entries _log_operation may have to write: a plain one, one whose command
\* holds quotes and whose message ends with the newline of the captured
\* stderr, and one whose command holds a backslash and a tab.
AuditEntries ==
    { AuditText(<<"2", "0", "2", "4", "-", "0", "1", "-", "0", "1", "T", "0", "0",
                  ":", "0", "0", ":", "0", "1">>,
                << <<"l", "s">> >>, BasicText, SuccessText,
                <<"l", "i", "s", "t">>, <<"0", ".", "5">>, <<"o", "k">>, JNull),
      AuditText(<<"2", "0", "2", "4", "-", "0", "1", "-", "0", "1", "T", "0", "0",
                  ":", "0", "0", ":", "0", "2">>,
                << <<"e", "c", "h", "o">>, <<"\"", "h", "i", "\"">> >>,
                ElevatedText, OperationFailedText,
                <<"s", "a", "y">>, <<"1", ".", "2", "5">>,
                <<"r", "c", " ", "1", ":", " ", "b", "o", "o", "m", "\n">>, JNull),
      AuditText(<<"2", "0", "2", "4", "-", "0", "1", "-", "0", "1", "T", "0", "0",
                  ":", "0", "0", ":", "0", "3">>,
                << <<"d", "i", "r">>, <<"C", ":", "\\", "x", "\t", "y">> >>,
                AdministrativeText, UserCancelledText,
                <<"d", "i", "r">>, <<"2", ".", "0">>,
                <<"c", "a", "n", "c", "e", "l", "l", "e", "d">>,
                JStr(<<"/", "t", "m", "p">>)) }

\* The log_entry dictionary of _log_operation
LogEntryObject(audit_entry) ==
    JObj(<<TimestampKey, OperationKey, PermissionLevelKey, ResultKey, UserKey, DetailsKey>>,
         <<JStr(audit_entry.timestamp), JStr(audit_entry.operation),
           JStr(audit_entry.permission_level), JStr(audit_entry.result),
           JStr(audit_entry.user), audit_entry.details>>)

\* Lines the file holds that _log_operation did not write: the lines of the
\* logging FileHandler, a record cut short, an empty line (not JSON), and
\* lines that are JSON but no audit record.
ForeignLines ==
    { [kind |-> "text",
       text |-> <<"2", "0", "2", "4", "-", "0", "1", "-", "0", "1", " ", "-", " ",
                 "I", "N", "F", "O", " ", "-", " ", "C", "o", "m", "m", "a", "n",
                 "d", ":", " ", "l", "s">>],
      [kind |-> "text",
       text |-> <<"{", "\"", "t", "i", "m", "e", "s", "t", "a", "m", "p", "\"", ":",
                 " ", "\"", "2", "0", "2", "4", "-", "0", "1">>],
      [kind |-> "text", text |-> <<>>],
      [kind |-> "json", text |-> <<"{", "}">>],
      [kind |-> "json", text |-> <<"4", "2">>],
      [kind |-> "json",
       text |-> <<"{", "\"", "r", "e", "s", "u", "l", "t", "\"", ":", " ", "\"",
                 "s", "u", "c", "c", "e", "s", "s", "\"", "}">>] }

RECURSIVE SplitLines(_)
\* The lines of text, each ended by a newline (the last one maybe not)
SplitLines(text) ==
    IF text = <<>> THEN <<>>
    ELSE IF \A i \in 1..Len(text) : text[i] # "\n" THEN <<text>>
    ELSE LET n == CHOOSE i \in 1..Len(text) :
                      text[i] = "\n" /\ \A j \in 1..(i - 1) : text[j] # "\n"
         IN <<SubSeq(text, 1, n - 1)>> \o SplitLines(SubSeq(text, n + 1, Len(text)))

\* open(path, 'a') ... f.write(text), on a file whose lines are all ended
FileWrite(file, text) == file \o SplitLines(text)

\* entries[-n:]
LastSlice(entries, n) ==
    LET start == IF n = 0 THEN 0
                 ELSE IF n > Len(entries) THEN 0
                 ELSE Len(entries) - n
    IN SubSeq(entries, start + 1, Len(entries))

RecentWindow == 10

NoSummary ==
    [kind |-> "none", limit |-> 0, total_entries |-> 0, success_count |-> 0,
     failure_count |-> 0, elevated_operations |-> 0, recent_operations |-> <<>>]

\* "except FileNotFoundError"
NoAuditLog(limit) == [NoSummary EXCEPT !.kind = "missing", !.limit = limit]

\* "except Exception"
FailedToRead(limit) == [NoSummary EXCEPT !.kind = "error", !.limit = limit]

\* get_audit_summary(limit) on a file that exists
get_audit_summary(file, limit) ==
    LET decoded == [i \in 1..Len(file) |-> Loads(Strip(file[i]))]
        parsed == SelectSeq(decoded, LAMBDA d : d.ok)
        entries == [i \in 1..Len(parsed) |-> parsed[i].val]
        recent_entries == IF Len(entries) > limit THEN LastSlice(entries, limit)
                          ELSE entries
        raises(e) == ~HasKey(e, ResultKey) \/ ~HasKey(e, PermissionLevelKey)
    IN IF \E i \in 1..Len(recent_entries) : raises(recent_entries[i])
       THEN FailedToRead(limit)
       ELSE [kind |-> "summary",
             limit |-> limit,
             total_entries |-> Len(recent_entries),
             success_count |->
                 Len(SelectSeq(recent_entries, LAMBDA e : Get(e, ResultKey) = JStr(SuccessText))),
             failure_count |->
                 Len(SelectSeq(recent_entries, LAMBDA e : Get(e, ResultKey) # JStr(SuccessText))),
             elevated_operations |->
                 Len(SelectSeq(recent_entries,
                       LAMBDA e : Get(e, PermissionLevelKey)
                                      \in {JStr(ElevatedText), JStr(AdministrativeText)})),
             recent_operations |-> LastSlice(recent_entries, RecentWindow)]

\* ------------------------------------------------ analyze_command_permissions
\* Strings are sequences of characters here.
elevated_commands ==
    { <<"s", "u", "d", "o">>, <<"d", "o", "a", "s">>, <<"s", "u">>,
      <<"a", "p", "t">>, <<"a", "p", "t", "-", "g", "e", "t">>, <<"y", "u", "m">>,
      <<"d", "n", "f">>, <<"p", "a", "c", "m", "a", "n">>, <<"s", "y", "s", "t", "e", "m", "c", "t", "l">>,
      <<"s", "e", "r", "v", "i", "c", "e">>, <<"m", "o", "u", "n", "t">>, <<"u", "m", "o", "u", "n", "t">>,
      <<"f", "d", "i", "s", "k">>, <<"m", "k", "f", "s">>, <<"u", "s", "e", "r", "a", "d", "d">>,
      <<"u", "s", "e", "r", "m", "o", "d">>, <<"u", "s", "e", "r", "d", "e", "l">>, <<"c", "h", "m", "o", "d">>,
      <<"c", "h", "o", "w", "n">>, <<"v", "i", "s", "u", "d", "o">>, <<"p", "i", "p">>,
      <<"c", "o", "n", "d", "a">>, <<"n", "p", "m">>, <<"y", "a", "r", "n">> }

admin_commands ==
    { <<"c", "r", "o", "n", "t", "a", "b">>, <<"i", "p", "t", "a", "b", "l", "e", "s">>, <<"u", "f", "w">>,
      <<"f", "i", "r", "e", "w", "a", "l", "l", "-", "c", "m", "d">>, <<"s", "y", "s", "c", "t", "l">>, <<"h", "o", "s", "t", "n", "a", "m", "e", "c", "t", "l">>,
      <<"t", "i", "m", "e", "d", "a", "t", "e", "c", "t", "l">>, <<"l", "o", "c", "a", "l", "e", "c", "t", "l">> }

privileged_paths ==
    { <<"/", "e", "t", "c">>, <<"/", "u", "s", "r", "/", "l", "o", "c", "a", "l">>, <<"/", "o", "p", "t">>,
      <<"/", "v", "a", "r">>, <<"/", "r", "o", "o", "t">> }

\* str.startswith
StartsWith(s, prefix) ==
    Len(prefix) <= Len(s) /\ SubSeq(s, 1, Len(prefix)) = prefix

\* The classifier comparing the first token as it is written.
analyze_command_permissions_CaseSensitive(command) ==
    IF command = <<>> THEN BASIC
    ELSE IF command[1] \in admin_commands THEN ADMINISTRATIVE
    ELSE IF command[1] \in elevated_commands THEN ELEVATED
    ELSE IF \E i \in 1..Len(command) : \E path \in privileged_paths :
                StartsWith(command[i], path)
         THEN ELEVATED
    ELSE BASIC

analyze_command_permissions(command) ==
    IF command = <<>> THEN BASIC
    ELSE LET first_cmd == Lower(command[1]) IN
         IF first_cmd \in admin_commands THEN ADMINISTRATIVE
         ELSE IF first_cmd \in elevated_commands THEN ELEVATED
         ELSE IF \E i \in 1..Len(command) : \E path \in privileged_paths :
                     StartsWith(command[i], path)
              THEN ELEVATED
         ELSE BASIC

MaxArgs == 2       \* arguments of a command handed to the classifier

\* The arguments the classified commands are made of.
Arguments ==
    { <<"c", "r", "o", "n", "t", "a", "b">>, <<"C", "r", "o", "n", "T", "a", "b">>,
      <<"s", "u", "d", "o">>, <<"P", "I", "P">>,
      <<"l", "s">>, <<"-", "l">>,
      <<>>, <<"/", "e", "t", "c", "/", "x">>,
      <<"/", "E", "T", "C", "/", "x">>, <<"/", "v", "a", "r", "i", "a", "b", "l", "e">>,
      <<"/", "u", "s", "r", "/", "l", "i", "b">>, <<"/", "u", "s", "r", "/", "l", "o", "c", "a", "l", "/", "b", "i", "n">>,
      <<"/", "t", "m", "p", "/", "x">> }

Commands == UNION { [1..n -> Arguments] : n \in 0..MaxArgs }

\* ------------------------------------------------------------------ state
\* The activation record of execute_with_escalation before any call.
IdleFrame ==
    [pc |-> "idle",              \* idle, prompt, spawn, communicate, done, raised
     operation |-> None,         \* the PrivilegedOperation object passed in
     supplied |-> None,          \* its value when the call was made
     start_time |-> 0,
     needs_escalation |-> FALSE,
     command |-> <<>>,           \* the argv handed to Popen
     env |-> {},                 \* the environment handed to Popen
     result |-> None,            \* the returned (result, message)
     message |-> None,
     exception |-> None,         \* the exception that left the call, if any
     gate_calls |-> 0,           \* invocations of request_permission
     granted |-> None,           \* what request_permission returned: "True", "False"
     prompts |-> 0,              \* lines read by input()
     prints |-> 0,               \* print calls of request_permission
     popen_calls |-> 0,          \* invocations of subprocess.Popen
     process |-> "none",         \* none, running, exited, killed
     returncode |-> 0,           \* process.returncode once exited
     stdout |-> "",              \* what communicate returned
     stderr |-> "",
     caught |-> None,            \* the exception an except clause of the try block caught
     kill_calls |-> 0,           \* invocations of process.kill
     log_calls |-> 0]            \* invocations of _log_operation

InCall(c) == frame[c].pc \in {"prompt", "spawn", "communicate"}

\* The manager after construction
InitManager ==
    /\ log = <<>>
    /\ session_operations = <<>>
    /\ is_privileged \in BOOLEAN
    /\ file_handler \in BOOLEAN
    /\ clock = 1
    /\ calls = 0
    /\ frame = [c \in Callers |-> IdleFrame]
    /\ returned = {}
    /\ write_failed = {}
    /\ overlapped = FALSE

\* The activation record of a request_permission call made by a caller itself.
IdleGate ==
    [pc |-> "idle",              \* idle, prompt, returned, raised
     operation |-> None,
     lines |-> <<>>,             \* the lines input() delivered, in order
     prints |-> 0,               \* print calls made
     result |-> None,            \* "True" or "False" once returned
     exception |-> None]

\* The list a caller got from get_session_history; none yet.  shared tells
\* whether it is the manager's own list object.
NoView == [held |-> FALSE, shared |-> FALSE, mutated |-> FALSE, items |-> <<>>]

\* The activation record of install_package, manage_file_permissions or
\* execute_script before any of them is called.
IdleWrapper ==
    [pc |-> "idle",              \* idle, loop, done, raised
     name |-> None,              \* the wrapper called
     args |-> None,              \* with these arguments
     rejected |-> FALSE,         \* it returned at its own input test
     commands |-> <<>>,          \* the operations it hands to execute_with_escalation
     results |-> <<>>,           \* the (result, message) pairs it got back, in order
     result |-> None,            \* what it returned
     message |-> None,
     calls_before |-> 0,         \* calls, log, session history and prompt state
     log_before |-> <<>>,        \* when it was called
     session_before |-> <<>>,
     frame_before |-> IdleFrame]

\* Nothing else has been called yet
InitAux ==
    /\ argv = <<>>
    /\ level = None
    /\ gate = IdleGate
    /\ store = <<>>
    /\ written = <<>>
    /\ summary = NoSummary
    /\ view = NoView
    /\ wrapper = IdleWrapper

Init == InitManager /\ InitAux

\* _log_operation followed by "return result, message": the activation f of
\* caller c ends with (result, message); w is what the audit write does.
Finish(c, f, result, message, w) ==
    LET audit_entry == AuditEntry(f.operation, result, message, f.start_time, clock)
        recorded == Recorded(result)
        wrote == recorded /\ w = "ok"
        caught == ~recorded \/ w = "ok" \/ LogWriteCaught(w)
    IN
    /\ session_operations' =
          IF recorded THEN Append(session_operations, audit_entry)
          ELSE session_operations
    /\ log' =
          IF ~recorded THEN log
          ELSE IF w = "ok" THEN WriteLine(log, LogEntry(audit_entry))
          ELSE IF LogWriteCaught(w)
               THEN LoggerEmit(log, "ERROR", "Failed to write audit log: " \o w)
          ELSE log
    /\ write_failed' = IF recorded /\ ~wrote THEN write_failed \cup {f.start_time}
                       ELSE write_failed
    /\ returned' = IF caught THEN returned \cup {f.start_time} ELSE returned
    /\ frame' = [frame EXCEPT ![c] =
          [f EXCEPT !.pc = IF caught THEN "done" ELSE "raised",
                    !.result = IF caught THEN result ELSE None,
                    !.message = IF caught THEN message ELSE None,
                    !.exception = IF caught THEN None ELSE w,
                    !.log_calls = IF recorded THEN @ + 1 ELSE @]]
    /\ UNCHANGED <<is_privileged, file_handler, clock, calls, overlapped, aux>>

\* execute_with_escalation, from entry to its first blocking point: the start
\* time, the two logger.info lines, check_permission_required, and the part of
\* request_permission before the prompt.
Begin(c, operation) ==
    /\ ~InCall(c)
    /\ calls < MaxCalls
    /\ LET needs == check_permission_required(operation)
           silent == needs /\ ReturnsWithoutPrompt(operation)
           f == [IdleFrame EXCEPT
                   !.operation = operation,
                   !.supplied = operation,
                   !.start_time = clock,
                   !.needs_escalation = needs,
                   !.gate_calls = IF needs THEN 1 ELSE 0,
                   !.granted = IF silent THEN "True" ELSE None,
                   !.prints = IF needs /\ ~silent THEN HeaderPrints(operation) ELSE 0,
                   !.pc = IF needs /\ ~silent THEN "prompt" ELSE "spawn"]
       IN
       /\ frame' = [frame EXCEPT ![c] = f]
       /\ log' = LoggerEmit(
                    LoggerEmit(log, "INFO",
                               "Attempting privileged operation: " \o operation.description),
                    "INFO", "Command: " \o Join(operation.command))
    /\ clock' = clock + 1
    /\ calls' = calls + 1
    /\ overlapped' = (overlapped \/ \E d \in Callers \ {c} : InCall(d))
    /\ UNCHANGED <<session_operations, is_privileged, file_handler, returned, write_failed,
                   aux>>

\* request_permission: input() delivers a recognized line
Answer(c, line, w) ==
    LET f == frame[c]
        granted == ParseResponse(line) = "yes"
        g == [f EXCEPT !.granted = IF granted THEN "True" ELSE "False", !.prompts = @ + 1]
    IN
    /\ f.pc = "prompt"
    /\ ParseResponse(line) # "again"
    /\ IF ConsentDeclined(f.needs_escalation, granted)
       THEN Finish(c, g, USER_CANCELLED, "User cancelled the operation", w)
       ELSE /\ w = "ok"
            /\ frame' = [frame EXCEPT ![c] = [g EXCEPT !.pc = "spawn"]]
            /\ UNCHANGED <<log, session_operations, is_privileged, file_handler, clock,
                           calls, returned, write_failed, overlapped, aux>>

\* request_permission: an unrecognized line, "Please enter 'y' or 'n'"
Reprompt(c, line) ==
    /\ frame[c].pc = "prompt"
    /\ ParseResponse(line) = "again"
    /\ frame[c].prompts < MaxPrompts
    /\ frame' = [frame EXCEPT ![c].prompts = @ + 1, ![c].prints = @ + 1]
    /\ UNCHANGED <<log, session_operations, is_privileged, file_handler, clock,
                   calls, returned, write_failed, overlapped, aux>>

\* request_permission: input() raises EOFError (the channel is closed); nothing
\* in request_permission or execute_with_escalation catches it
InputEOF(c) ==
    /\ frame[c].pc = "prompt"
    /\ frame' = [frame EXCEPT ![c].pc = "raised", ![c].exception = "EOFError",
                              ![c].prompts = @ + 1]
    /\ UNCHANGED <<log, session_operations, is_privileged, file_handler, clock,
                   calls, returned, write_failed, overlapped, aux>>

\* A spawn step that goes back to Popen once after Popen raised.
Spawn_RetryOnce(c, outcome, w) ==
    LET f == frame[c]
        command == PrepareCommand(f.operation, f.needs_escalation)
        g == [f EXCEPT !.command = command, !.popen_calls = @ + 1,
                       !.env = PrepareEnvironment(f.operation),
                       !.operation = PreparedOperation(f.operation, f.needs_escalation),
                       !.caught = IF outcome = "ok" THEN None ELSE outcome]
    IN
    /\ f.pc = "spawn"
    /\ IF outcome = "ok"
       THEN /\ w = "ok"
            /\ frame' = [frame EXCEPT ![c] =
                  [g EXCEPT !.pc = "communicate", !.process = "running"]]
            /\ UNCHANGED <<log, session_operations, is_privileged, file_handler, clock,
                           calls, returned, write_failed, overlapped, aux>>
       ELSE IF f.popen_calls = 0
       THEN /\ w = "ok"
            /\ frame' = [frame EXCEPT ![c] = g]
            /\ UNCHANGED <<log, session_operations, is_privileged, file_handler, clock,
                           calls, returned, write_failed, overlapped, aux>>
       ELSE Finish(c, g, ExceptResult(outcome), ExceptMessage(outcome, f.operation), w)

\* The command is prepared and subprocess.Popen is called
Spawn(c, outcome, w) ==
    LET f == frame[c]
        command == PrepareCommand(f.operation, f.needs_escalation)
        g == [f EXCEPT !.command = command, !.popen_calls = @ + 1,
                       !.env = PrepareEnvironment(f.operation),
                       !.operation = PreparedOperation(f.operation, f.needs_escalation),
                       !.caught = IF outcome = "ok" THEN None ELSE outcome]
    IN
    /\ f.pc = "spawn"
    /\ IF outcome = "ok"
       THEN /\ w = "ok"
            /\ frame' = [frame EXCEPT ![c] =
                  [g EXCEPT !.pc = "communicate", !.process = "running"]]
            /\ UNCHANGED <<log, session_operations, is_privileged, file_handler, clock,
                           calls, returned, write_failed, overlapped, aux>>
       ELSE Finish(c, g, ExceptResult(outcome), ExceptMessage(outcome, f.operation), w)

\* process.communicate returns: the subprocess exited within the timeout
Communicate(c, exit, w) ==
    LET f == frame[c]
        g == [f EXCEPT !.process = "exited", !.returncode = exit.returncode,
                       !.stdout = exit.stdout, !.stderr = exit.stderr]
    IN
    /\ f.pc = "communicate"
    /\ Finish(c, g, ExitResult(exit.returncode), ExitMessage(exit), w)

\* process.communicate raises TimeoutExpired; process.kill() is attempted and
\* whatever it raises is discarded
CommunicateTimeout(c, killed, w) ==
    LET f == frame[c]
        g == [f EXCEPT !.process = IF killed THEN "killed" ELSE "running",
                       !.kill_calls = @ + 1, !.caught = "TimeoutExpired"]
    IN
    /\ f.pc = "communicate"
    /\ Finish(c, g, ExceptResult("TimeoutExpired"),
              ExceptMessage("TimeoutExpired", f.operation), w)

\* process.communicate raises after the subprocess exited: with text=True the
\* captured output is decoded, and output that is not valid text raises
CommunicateError(c, exit, w) ==
    LET f == frame[c]
        g == [f EXCEPT !.process = "exited", !.returncode = exit.returncode,
                       !.caught = "UnicodeDecodeError"]
    IN
    /\ f.pc = "communicate"
    /\ Finish(c, g, ExceptResult("UnicodeDecodeError"),
              ExceptMessage("UnicodeDecodeError", f.operation), w)

\* One caller at a time uses the manager; the environment is unrestricted.
Next ==
    \/ \E operation \in Operations : Begin("a", operation)
    \/ \E line \in Responses, w \in WriteOutcomes : Answer("a", line, w)
    \/ \E line \in Responses : Reprompt("a", line)
    \/ InputEOF("a")
    \/ \E outcome \in SpawnOutcomes, w \in WriteOutcomes : Spawn("a", outcome, w)
    \/ \E exit \in ProcessExits, w \in WriteOutcomes : Communicate("a", exit, w)
    \/ \E killed \in BOOLEAN, w \in WriteOutcomes : CommunicateTimeout("a", killed, w)
    \/ \E exit \in ProcessExits, w \in WriteOutcomes : CommunicateError("a", exit, w)

Spec == Init /\ [][Next]_vars

\* Independent callers (threads) share the manager and their calls overlap; every
\* Popen succeeds and every subprocess exits within its timeout.
NextOverlap ==
    \/ \E c \in Callers, operation \in Operations : Begin(c, operation)
    \/ \E c \in Callers, line \in Responses, w \in WriteOutcomes : Answer(c, line, w)
    \/ \E c \in Callers, w \in WriteOutcomes : Spawn(c, "ok", w)
    \/ \E c \in Callers, exit \in ProcessExits, w \in WriteOutcomes : Communicate(c, exit, w)

SpecOverlap == Init /\ [][NextOverlap]_vars

\* ---------------------------------------------------------------- wrappers
\* "if permissions:", "if owner:", "if arguments:" on a string or None
Truthy(value) == value # None /\ value # ""

InstallTimeout == 600
ScriptTimeout == 300

\* The commands list manage_file_permissions builds: chmod, then chown
ManageCommands(file_path, permissions, owner) ==
    (IF Truthy(permissions) THEN << <<"chmod", permissions, file_path>> >> ELSE <<>>)
    \o (IF Truthy(owner) THEN << <<"chown", owner, file_path>> >> ELSE <<>>)

\* The PrivilegedOperation manage_file_permissions makes of one command
ManageOperation(cmd, file_path) ==
    PrivilegedOperation(cmd, "Change permissions/ownership for " \o file_path,
                        ELEVATED, TRUE)

\* A loop that goes on to the next command whatever the result.
StopsAfter_Never(result) == FALSE

\* "if result != OperationResult.SUCCESS: return result, message"
StopsAfter(result) == result # SUCCESS

\* The package managers install_package knows
SupportedManager(package_manager) == package_manager \in {"pip", "conda"}

\* The PrivilegedOperation install_package builds for a supported manager
InstallOperation(package_name, package_manager) ==
    LET command == IF package_manager = "pip"
                   THEN <<"pip", "install", package_name>>
                   ELSE <<"conda", "install", "-y", package_name>>
        description == "Install Python package '" \o package_name \o "' using "
                       \o package_manager
    IN [PrivilegedOperation(command, description, ELEVATED, TRUE)
           EXCEPT !.timeout = InstallTimeout]

\* The strings execute_script is called with, as text
Characters(string) ==
    CASE string = "python3" -> <<"p", "y", "t", "h", "o", "n", "3">>
      [] string = "/tmp/run.py" -> <<"/", "t", "m", "p", "/", "r", "u", "n", ".", "p", "y">>
      [] string = "/etc/run.py" -> <<"/", "e", "t", "c", "/", "r", "u", "n", ".", "p", "y">>
      [] string = "-v" -> <<"-", "v">>

\* command = [interpreter, script_path], extended by the arguments
ScriptCommand(script_path, arguments, interpreter) ==
    <<interpreter, script_path>> \o arguments

\* The PrivilegedOperation execute_script builds
ScriptOperation(script_path, arguments, interpreter) ==
    LET command == ScriptCommand(script_path, arguments, interpreter)
        text == [i \in 1..Len(command) |-> Characters(command[i])]
    IN [PrivilegedOperation(command, "Execute script: " \o script_path,
                            analyze_command_permissions(text), TRUE)
           EXCEPT !.timeout = ScriptTimeout]

\* A readability test that lets every script through.
ScriptRejected_Never(access) == FALSE

\* "if not os.access(script_path, os.R_OK)": access is what os.access returns
ScriptRejected(access) == ~access

\* A wrapper is entered with the operations it is going to run
Entered(name, args, commands) ==
    [IdleWrapper EXCEPT !.pc = "loop", !.name = name, !.args = args,
                        !.commands = commands,
                        !.calls_before = calls, !.log_before = log,
                        !.session_before = session_operations,
                        !.frame_before = frame["a"]]

\* A wrapper returns (result, message)
Returned(w, result, message) ==
    [w EXCEPT !.pc = "done", !.result = result, !.message = message]

WrapperIdle == wrapper.pc = "idle" /\ ~InCall("a")

\* install_package(package_name, package_manager) up to its call of
\* execute_with_escalation, or to its return for an unsupported manager
InstallPackage(package_name, package_manager) ==
    LET args == [package_name |-> package_name, package_manager |-> package_manager] IN
    /\ WrapperIdle
    /\ wrapper' =
          IF SupportedManager(package_manager)
          THEN Entered("install_package", args,
                       <<InstallOperation(package_name, package_manager)>>)
          ELSE [Returned(Entered("install_package", args, <<>>), OPERATION_FAILED,
                         "Unsupported package manager: " \o package_manager)
                   EXCEPT !.rejected = TRUE]
    /\ UNCHANGED <<manager, argv, level, gate, store, written, summary, view>>

\* manage_file_permissions(file_path, permissions, owner) up to its first call
\* of execute_with_escalation, or to its return when there is no command
ManageFilePermissions(file_path, permissions, owner) ==
    LET commands == ManageCommands(file_path, permissions, owner)
        operations == [i \in 1..Len(commands) |-> ManageOperation(commands[i], file_path)]
        args == [file_path |-> file_path, permissions |-> permissions, owner |-> owner]
        w == Entered("manage_file_permissions", args, operations)
    IN
    /\ WrapperIdle
    /\ wrapper' = IF commands = <<>>
                  THEN Returned(w, SUCCESS, "Permissions updated successfully")
                  ELSE w
    /\ UNCHANGED <<manager, argv, level, gate, store, written, summary, view>>

\* execute_script(script_path, arguments, interpreter) up to its call of
\* execute_with_escalation, or to its return for an unreadable script
ExecuteScript(script_path, arguments, interpreter, access) ==
    LET args == [script_path |-> script_path, arguments |-> arguments,
                 interpreter |-> interpreter, access |-> access] IN
    /\ WrapperIdle
    /\ wrapper' =
          IF ScriptRejected(access)
          THEN [Returned(Entered("execute_script", args, <<>>), PERMISSION_DENIED,
                         "Cannot read script file: " \o script_path)
                   EXCEPT !.rejected = TRUE]
          ELSE Entered("execute_script", args,
                       <<ScriptOperation(script_path, arguments, interpreter)>>)
    /\ UNCHANGED <<manager, argv, level, gate, store, written, summary, view>>

\* The calls of execute_with_escalation the wrapper has made
WrapperCalls == calls - wrapper.calls_before

\* The wrapper calls execute_with_escalation for its next operation
WrapperExecute ==
    /\ wrapper.pc = "loop"
    /\ WrapperCalls = Len(wrapper.results)
    /\ Begin("a", wrapper.commands[Len(wrapper.results) + 1])

\* execute_with_escalation returned to the wrapper: install_package and
\* execute_script return what it returned; manage_file_permissions returns it
\* when it is not SUCCESS, goes on to the next command, or returns SUCCESS
\* after the last one
WrapperResume ==
    LET f == frame["a"]
        results == Append(wrapper.results, [result |-> f.result, message |-> f.message])
        w == [wrapper EXCEPT !.results = results]
    IN
    /\ wrapper.pc = "loop"
    /\ WrapperCalls = Len(wrapper.results) + 1
    /\ f.pc = "done"
    /\ wrapper' =
          IF wrapper.name # "manage_file_permissions" THEN Returned(w, f.result, f.message)
          ELSE IF StopsAfter(f.result) THEN Returned(w, f.result, f.message)
          ELSE IF Len(results) < Len(wrapper.commands) THEN w
          ELSE Returned(w, SUCCESS, "Permissions updated successfully")
    /\ UNCHANGED <<manager, argv, level, gate, store, written, summary, view>>

\* execute_with_escalation raised: the wrapper catches nothing
WrapperRaised ==
    /\ wrapper.pc = "loop"
    /\ WrapperCalls = Len(wrapper.results) + 1
    /\ frame["a"].pc = "raised"
    /\ wrapper' = [wrapper EXCEPT !.pc = "raised"]
    /\ UNCHANGED <<manager, argv, level, gate, store, written, summary, view>>

\* One caller makes at most one call of execute_with_escalation itself and
\* then calls one wrapper.
NextWrapper ==
    \/ (wrapper.pc = "idle" /\ calls = 0
           /\ \E operation \in Operations : Begin("a", operation))
    \/ \E line \in Responses, w \in WriteOutcomes : Answer("a", line, w)
    \/ \E line \in Responses : Reprompt("a", line)
    \/ InputEOF("a")
    \/ \E outcome \in SpawnOutcomes, w \in WriteOutcomes : Spawn("a", outcome, w)
    \/ \E exit \in ProcessExits, w \in WriteOutcomes : Communicate("a", exit, w)
    \/ \E killed \in BOOLEAN, w \in WriteOutcomes : CommunicateTimeout("a", killed, w)
    \/ \E exit \in ProcessExits, w \in WriteOutcomes : CommunicateError("a", exit, w)
    \/ \E package_manager \in {"pip", "conda", "apt"} :
          InstallPackage("requests", package_manager)
    \/ \E permissions \in {"", "755"}, owner \in {None, "bob"} :
          ManageFilePermissions("/tmp/x", permissions, owner)
    \/ \E script_path \in {"/tmp/run.py", "/etc/run.py"}, arguments \in {<<>>, <<"-v">>},
          access \in BOOLEAN :
          ExecuteScript(script_path, arguments, "python3", access)
    \/ WrapperExecute
    \/ WrapperResume
    \/ WrapperRaised

SpecWrapper == Init /\ [][NextWrapper]_vars

\* The operations a caller may hand to request_permission: every tier, with
\* and without requires_user_approval.
GateOperations ==
    { PrivilegedOperation(<<"ls", "/tmp">>, "op", l, a) :
          l \in PermissionLevel, a \in BOOLEAN }

\* request_permission(operation) up to the first input(), or to "return True"
RequestPermission(operation) ==
    /\ gate.pc = "idle"
    /\ calls = 0
    /\ gate' = IF ReturnsWithoutPrompt(operation)
               THEN [IdleGate EXCEPT !.pc = "returned", !.operation = operation,
                                     !.result = "True"]
               ELSE [IdleGate EXCEPT !.pc = "prompt", !.operation = operation,
                                     !.prints = HeaderPrints(operation)]
    /\ UNCHANGED <<manager, argv, level, store, written, summary, view, wrapper>>

\* input() delivers a recognized line: return True / return False
RequestPermissionAnswer(line) ==
    /\ gate.pc = "prompt"
    /\ ParseResponse(line) # "again"
    /\ gate' = [gate EXCEPT !.pc = "returned",
                            !.lines = Append(@, line),
                            !.result = IF ParseResponse(line) = "yes" THEN "True"
                                       ELSE "False"]
    /\ UNCHANGED <<manager, argv, level, store, written, summary, view, wrapper>>

\* input() delivers an unrecognized line: print("Please enter 'y' or 'n'")
RequestPermissionReprompt(line) ==
    /\ gate.pc = "prompt"
    /\ ParseResponse(line) = "again"
    /\ Len(gate.lines) < MaxPrompts
    /\ gate' = [gate EXCEPT !.lines = Append(@, line), !.prints = @ + 1]
    /\ UNCHANGED <<manager, argv, level, store, written, summary, view, wrapper>>

\* input() raises EOFError, which request_permission does not catch
RequestPermissionEOF ==
    /\ gate.pc = "prompt"
    /\ gate' = [gate EXCEPT !.pc = "raised", !.exception = "EOFError"]
    /\ UNCHANGED <<manager, argv, level, store, written, summary, view, wrapper>>

\* A caller of a fresh manager calls request_permission itself, or else uses
\* execute_with_escalation.
NextGate ==
    \/ \E operation \in GateOperations : RequestPermission(operation)
    \/ \E line \in Responses : RequestPermissionAnswer(line)
    \/ \E line \in Responses : RequestPermissionReprompt(line)
    \/ RequestPermissionEOF
    \/ (gate.pc = "idle" /\ Next)

SpecGate == Init /\ [][NextGate]_vars

\* Between two calls of execute_with_escalation the caller calls
\* get_session_history
GetSessionHistory ==
    /\ ~InCall("a")
    /\ view' = get_session_history(session_operations)
    /\ UNCHANGED <<manager, argv, level, gate, store, written, summary, wrapper>>

\* The caller empties the list it got (list.clear()); a list object shared
\* with the manager is emptied for the manager too
ClearView ==
    /\ ~InCall("a")
    /\ view.held
    /\ view.items # <<>>
    /\ view' = [view EXCEPT !.items = <<>>, !.mutated = TRUE]
    /\ session_operations' = IF view.shared THEN <<>> ELSE session_operations
    /\ UNCHANGED <<log, is_privileged, file_handler, clock, calls, frame, returned,
                   write_failed, overlapped, argv, level, gate, store, written, summary,
                   wrapper>>

\* One caller uses execute_with_escalation, answering every prompt with a
\* recognized line or closing the channel, and reads the session history
\* between its calls.
NextHistory ==
    \/ \E operation \in Operations : Begin("a", operation)
    \/ \E line \in Responses, w \in WriteOutcomes : Answer("a", line, w)
    \/ InputEOF("a")
    \/ \E outcome \in SpawnOutcomes, w \in WriteOutcomes : Spawn("a", outcome, w)
    \/ \E exit \in ProcessExits, w \in WriteOutcomes : Communicate("a", exit, w)
    \/ \E killed \in BOOLEAN, w \in WriteOutcomes : CommunicateTimeout("a", killed, w)
    \/ GetSessionHistory
    \/ ClearView

SpecHistory == Init /\ [][NextHistory]_vars

MaxLines == 2      \* lines written to the log file before it is summarized
MaxLimit == 2      \* the largest limit passed to get_audit_summary

\* The file write of _log_operation: f.write(json.dumps(log_entry) + '\n')
LogOperation(audit_entry) ==
    /\ summary.kind = "none"
    /\ Len(written) < MaxLines
    /\ store' = FileWrite(store, Dumps(LogEntryObject(audit_entry)) \o <<"\n">>)
    /\ written' = Append(written,
                         [kind |-> "record", entry |-> audit_entry, at |-> Len(store) + 1])
    /\ UNCHANGED <<manager, argv, level, gate, summary, view, wrapper>>

\* Something else appends a line to the file
WriteForeign(line) ==
    /\ summary.kind = "none"
    /\ Len(written) < MaxLines
    /\ store' = FileWrite(store, line.text \o <<"\n">>)
    /\ written' = Append(written,
                         [kind |-> line.kind, entry |-> line.text, at |-> Len(store) + 1])
    /\ UNCHANGED <<manager, argv, level, gate, summary, view, wrapper>>

\* get_audit_summary(limit), the file being there
GetAuditSummary(limit) ==
    /\ summary.kind = "none"
    /\ summary' = get_audit_summary(store, limit)
    /\ UNCHANGED <<manager, argv, level, gate, store, written, view, wrapper>>

\* get_audit_summary(limit) before anything created the file
GetAuditSummaryNoFile(limit) ==
    /\ summary.kind = "none"
    /\ written = <<>>
    /\ summary' = NoAuditLog(limit)
    /\ UNCHANGED <<manager, argv, level, gate, store, written, view, wrapper>>

NextAudit ==
    \/ \E audit_entry \in AuditEntries : LogOperation(audit_entry)
    \/ \E line \in ForeignLines : WriteForeign(line)
    \/ \E limit \in 0..MaxLimit : GetAuditSummary(limit)
    \/ \E limit \in 0..MaxLimit : GetAuditSummaryNoFile(limit)

SpecAudit == Init /\ [][NextAudit]_vars

\* A caller holds some command and has not classified it yet.
InitClassify ==
    /\ InitManager
    /\ argv \in Commands
    /\ level = None
    /\ gate = IdleGate
    /\ store = <<>>
    /\ written = <<>>
    /\ summary = NoSummary
    /\ view = NoView
    /\ wrapper = IdleWrapper

\* analyze_command_permissions(command)
Classify ==
    /\ level = None
    /\ level' = analyze_command_permissions(argv)
    /\ UNCHANGED <<manager, argv, gate, store, written, summary, view, wrapper>>

NextClassify == Classify

SpecClassify == InitClassify /\ [][NextClassify]_vars

\* ------------------------------------------------------------- properties
JsonLines(file) == SelectSeq(file, LAMBDA l : l.kind = "json")

\* The JSON records of the file whose timestamp is t
RecordsOf(file, t) == SelectSeq(JsonLines(file), LAMBDA l : l.timestamp = t)

\* The session entries whose timestamp is t
EntriesOf(t) == SelectSeq(session_operations, LAMBDA e : e.timestamp = t)

Done(c) == frame[c].pc = "done"

\* C1 (as stated): every call that completed appended exactly one record to
\* the audit log file, whatever its outcome, so that after k completed calls the
\* file holds exactly k records, one per call.
C1_OneRecordPerCompletedCall ==
    /\ Len(JsonLines(log)) = Cardinality(returned)
    /\ \A t \in returned : Len(RecordsOf(log, t)) = 1

\* C1 (amended): every call that returned ran _log_operation exactly once: it
\* appended exactly one entry to the session history and made one attempt to
\* append its record to the file.  The file holds exactly one record for each
\* returned call whose write succeeded and none for a call whose write raised,
\* and no record of a call that has not returned.
C1_OneAttemptPerCompletedCall ==
    /\ Len(session_operations) = Cardinality(returned)
    /\ Len(JsonLines(log)) = Cardinality(returned \ write_failed)
    /\ \A t \in returned :
          /\ Len(EntriesOf(t)) = 1
          /\ Len(RecordsOf(log, t)) = IF t \in write_failed THEN 0 ELSE 1
    /\ \A c \in Callers : Done(c) => frame[c].log_calls = 1

\* C1 witness: two calls returned, one of them declined at the gate and
\* recorded in the file, the other with a failed audit write.
C1_Witness ==
    /\ Cardinality(returned) = 2
    /\ Cardinality(write_failed) = 1
    /\ \E i \in 1..Len(log) : log[i].kind = "json" /\ log[i].result = USER_CANCELLED

\* C2: once the consent gate has returned false for a call, the call has
\* returned USER_CANCELLED and Popen was never invoked for it.
C2_DeclinedNeverSpawns ==
    \A c \in Callers :
        frame[c].granted = "False" =>
            /\ Done(c)
            /\ frame[c].result = USER_CANCELLED
            /\ frame[c].popen_calls = 0
            /\ frame[c].process = "none"
            /\ frame[c].command = <<>>

\* C2 witness: a call whose consent was declined has returned.
C2_Witness ==
    \E c \in Callers :
        frame[c].granted = "False" /\ Done(c) /\ frame[c].prompts > 0

\* C3 (as stated): no call to execute_with_escalation ends by raising.
C3_NeverRaises ==
    \A c \in Callers : frame[c].pc # "raised"

\* What the call returns, read off the path it took and not off the audit write.
ExpectedResult(f) ==
    IF f.granted = "False" THEN USER_CANCELLED
    ELSE IF f.caught = "PermissionError" THEN PERMISSION_DENIED
    ELSE IF f.caught # None THEN OPERATION_FAILED
    ELSE IF f.returncode = 0 THEN SUCCESS
    ELSE OPERATION_FAILED

ExpectedMessage(f) ==
    IF f.granted = "False" THEN "User cancelled the operation"
    ELSE IF f.caught = "PermissionError" THEN "Permission denied - unable to execute command"
    ELSE IF f.caught = "TimeoutExpired"
         THEN "Operation timed out after " \o ToString(f.operation.timeout) \o " seconds"
    ELSE IF f.caught # None THEN "Unexpected error: " \o f.caught
    ELSE IF f.returncode = 0
         THEN (IF f.stdout = "" THEN "Operation completed successfully" ELSE f.stdout)
    ELSE "Command failed with return code " \o ToString(f.returncode) \o ": " \o f.stderr

\* C4: a call whose audit write raised still returns, not raises, and returns
\* the (result, message) its path decides, the same as with a successful write;
\* the failure shows only as an ERROR line of the logger, never as a record.
C4_WriteFailureIsolated ==
    \A c \in Callers :
        (frame[c].pc \in {"done", "raised"} /\ frame[c].start_time \in write_failed) =>
            /\ Done(c)
            /\ frame[c].exception = None
            /\ frame[c].result = ExpectedResult(frame[c])
            /\ frame[c].message = ExpectedMessage(frame[c])
            /\ Len(RecordsOf(log, frame[c].start_time)) = 0
            /\ file_handler =>
                  \E i \in 1..Len(log) :
                      log[i].kind = "text" /\ log[i].levelname = "ERROR"

\* C4 witness: a call that ran its subprocess to a zero exit returned
\* SUCCESS although its audit write raised.
C4_Witness ==
    \E c \in Callers :
        /\ Done(c)
        /\ frame[c].start_time \in write_failed
        /\ frame[c].result = SUCCESS

\* C5: escalation is required exactly when the tier is above BASIC and the
\* process is not privileged; exactly then request_permission is invoked, and a
\* spawned argv is the operation's argv with 'sudo' prepended; otherwise there
\* is no prompt and the spawned argv is the operation's argv unchanged.
C5_EscalationExactlyWhenRequired ==
    \A c \in Callers :
        frame[c].pc # "idle" =>
            LET f == frame[c]
                required == f.operation.permission_level \in {ELEVATED, ADMINISTRATIVE}
                            /\ ~is_privileged
            IN
            /\ f.needs_escalation = required
            /\ f.gate_calls = (IF required THEN 1 ELSE 0)
            /\ ~required => f.prompts = 0 /\ f.granted = None
            /\ f.popen_calls > 0 =>
                  f.command = (IF required THEN <<"sudo">> \o f.operation.command
                               ELSE f.operation.command)

\* C5 witness: an operation above BASIC, approved at the prompt by an
\* unprivileged process, was spawned with the sudo prefix.
C5_Witness ==
    \E c \in Callers :
        /\ frame[c].popen_calls = 1
        /\ frame[c].needs_escalation
        /\ frame[c].granted = "True"
        /\ frame[c].prompts > 0
        /\ Head(frame[c].command) = "sudo"

\* The subprocess of the call in f ran to completion within the timeout.
Exited(f) == f.pc = "done" /\ f.process = "exited"

C7_TimeoutKillsProcess ==
    \A c \in Callers :
        (Done(c) /\ frame[c].caught = "TimeoutExpired") =>
            LET f == frame[c] IN
            /\ f.process = "killed"
            /\ f.kill_calls = 1
            /\ f.result = OPERATION_FAILED
            /\ f.message = "Operation timed out after "
                           \o ToString(f.operation.timeout) \o " seconds"
            /\ \A exit \in ProcessExits :
                  exit.returncode # 0 =>
                      f.message # FailedMessage(exit.returncode, exit.stderr)

\* C8 (as stated): PERMISSION_DENIED is returned exactly when Popen raised
\* PermissionError, and the attempt is then in the audit log file with result
\* 'permission_denied'.
C8_PermissionDeniedRecordedInFile ==
    \A c \in Callers :
        Done(c) =>
            LET f == frame[c] IN
            /\ f.result = PERMISSION_DENIED <=>
                  (f.caught = "PermissionError" /\ f.popen_calls = 1 /\ f.process = "none")
            /\ f.result = PERMISSION_DENIED =>
                  /\ Len(RecordsOf(log, f.start_time)) = 1
                  /\ RecordsOf(log, f.start_time)[1].result = "permission_denied"

\* C8 (amended): PERMISSION_DENIED is returned exactly when Popen raised
\* PermissionError; the attempt is then in the session history with result
\* 'permission_denied', and in the audit log file with that result unless the
\* write of the record itself raised.
C8_PermissionDeniedOnlyFromSpawn ==
    \A c \in Callers :
        Done(c) =>
            LET f == frame[c] IN
            /\ f.result = PERMISSION_DENIED <=>
                  (f.caught = "PermissionError" /\ f.popen_calls = 1 /\ f.process = "none")
            /\ f.result = PERMISSION_DENIED =>
                  /\ Len(EntriesOf(f.start_time)) = 1
                  /\ EntriesOf(f.start_time)[1].result = "permission_denied"
                  /\ f.start_time \notin write_failed =>
                        /\ Len(RecordsOf(log, f.start_time)) = 1
                        /\ RecordsOf(log, f.start_time)[1].result = "permission_denied"

\* C8 witness: Popen raised PermissionError, the call returned
\* PERMISSION_DENIED and its record is in the file.
C8_Witness ==
    \E c \in Callers :
        /\ Done(c)
        /\ frame[c].result = PERMISSION_DENIED
        /\ frame[c].caught = "PermissionError"
        /\ Len(RecordsOf(log, frame[c].start_time)) = 1

AuditFields == {"timestamp", "operation", "permission_level", "result", "user", "details"}

\* C9 (as stated): every line of the audit log file is one JSON object with
\* the fields timestamp, operation, permission_level, result, user and details.
C9_EveryLineIsJsonRecord ==
    \A i \in 1..Len(log) :
        /\ log[i].kind = "json"
        /\ AuditFields \subseteq DOMAIN log[i]

IsPrefix(s, t) == Len(s) <= Len(t) /\ SubSeq(t, 1, Len(s)) = s

\* The records of the file are in non-decreasing order of timestamp.
TimestampOrdered(file) ==
    LET records == JsonLines(file) IN
    \A i \in 1..(Len(records) - 1) : records[i].timestamp <= records[i + 1].timestamp

SameIgnoringCase(s, t) ==
    /\ Len(s) = Len(t)
    /\ \A i \in 1..Len(s) :
          \/ s[i] = t[i]
          \/ \E k \in DOMAIN UpperCase :
                {s[i], t[i]} = {UpperCase[k], LowerCase[k]}

\* The reference decision procedure of the classifier.
ReferenceTier(command) ==
    CASE Len(command) = 0 -> BASIC
      [] Len(command) > 0 /\ \E a \in admin_commands : SameIgnoringCase(command[1], a)
            -> ADMINISTRATIVE
      [] Len(command) > 0 /\ ~(\E a \in admin_commands : SameIgnoringCase(command[1], a))
                          /\ \E e \in elevated_commands : SameIgnoringCase(command[1], e)
            -> ELEVATED
      [] OTHER ->
            IF \E i \in 1..Len(command) :
                  \E path \in privileged_paths :
                      /\ Len(command[i]) >= Len(path)
                      /\ \A k \in 1..Len(path) : command[i][k] = path[k]
            THEN ELEVATED
            ELSE BASIC

\* C13: for every command, analyze_command_permissions returns a tier, and the
\* tier of the reference procedure: BASIC for the empty command, ADMINISTRATIVE
\* when the first token is an administrative command in any letter case,
\* whatever follows, else ELEVATED when it is an elevated command, else
\* ELEVATED when any argument starts with a privileged path, else BASIC.
C13_ClassifierIsReference ==
    level # None =>
        /\ level \in PermissionLevel
        /\ level = ReferenceTier(argv)

\* C13 witness: an administrative command written in mixed case and followed
\* by a privileged path was classified ADMINISTRATIVE.
C13_Witness ==
    /\ level = ADMINISTRATIVE
    /\ argv = <<<<"C", "r", "o", "n", "T", "a", "b">>, <<"/", "e", "t", "c", "/", "x">>>>

\* The four outcomes execute_with_escalation produces.
ProducedResults == {SUCCESS, PERMISSION_DENIED, OPERATION_FAILED, USER_CANCELLED}

\* C17: every call that returned carries exactly one outcome, one of SUCCESS,
\* PERMISSION_DENIED, OPERATION_FAILED and USER_CANCELLED; ESCALATION_FAILED is
\* never produced, neither as a returned result nor in the session history,
\* and no record of the audit log file has the result 'escalation_failed'.
C17_EscalationFailedNeverProduced ==
    /\ \A c \in Callers :
          Done(c) => /\ frame[c].result \in ProducedResults
                     /\ frame[c].message # None
    /\ \A i \in 1..Len(session_operations) :
          session_operations[i].result \in ProducedResults
    /\ \A i \in 1..Len(log) :
          log[i].kind = "json" =>
              /\ log[i].result \in ProducedResults
              /\ log[i].result # "escalation_failed"

\* C17 witness: an escalated command (sudo prefix) was refused at Popen, the
\* call returned, and the file holds PERMISSION_DENIED for it.
C17_Witness ==
    \E c \in Callers :
        /\ Done(c)
        /\ frame[c].needs_escalation
        /\ frame[c].caught = "PermissionError"
        /\ Head(frame[c].command) = "sudo"
        /\ \E i \in 1..Len(log) :
              /\ log[i].kind = "json"
              /\ log[i].timestamp = frame[c].start_time
              /\ log[i].result = PERMISSION_DENIED

\* C18: nothing is retried: one call of execute_with_escalation invokes
\* request_permission at most once and subprocess.Popen at most once, whatever
\* the outcome; a call that returned after Popen or the subprocess failed made
\* exactly one Popen call.
C18_NoRetry ==
    \A c \in Callers :
        /\ frame[c].gate_calls <= 1
        /\ frame[c].popen_calls <= 1
        /\ frame[c].kill_calls <= 1
        /\ (Done(c) /\ frame[c].result \in {OPERATION_FAILED, PERMISSION_DENIED})
              => frame[c].popen_calls = 1

\* C18 witness: Popen raised for a command that went through the consent gate,
\* and the call returned OPERATION_FAILED after that one Popen call.
C18_Witness ==
    \E c \in Callers :
        /\ Done(c)
        /\ frame[c].result = OPERATION_FAILED
        /\ frame[c].caught = "FileNotFoundError"
        /\ frame[c].gate_calls = 1
        /\ frame[c].popen_calls = 1

\* C19: execute_with_escalation does not mutate the operation it is given:
\* at every point of a call the operation object equals the value the caller
\* supplied, also after the sudo prefix was applied and the environment
\* overlay merged; the 'operation' field of the call's audit record, in the
\* session history and in the file, is the space-joined argv as supplied,
\* without the prefix.
C19_OperationNotMutated ==
    \A c \in Callers :
        LET f == frame[c] IN
        f.pc # "idle" =>
            /\ f.operation = f.supplied
            /\ f.supplied \in Operations
            /\ (f.popen_calls > 0 /\ f.needs_escalation /\ ~is_privileged)
                  => f.command = <<"sudo">> \o f.supplied.command
            /\ \A i \in 1..Len(session_operations) :
                  session_operations[i].timestamp = f.start_time
                      => session_operations[i].operation = Join(f.supplied.command)
            /\ \A i \in 1..Len(log) :
                  (log[i].kind = "json" /\ log[i].timestamp = f.start_time)
                      => log[i].operation = Join(f.supplied.command)

\* C19 witness: an operation with an environment overlay ran with the sudo
\* prefix and the merged environment, and its record holds the argv as supplied.
C19_Witness ==
    \E c \in Callers :
        /\ Done(c)
        /\ frame[c].popen_calls = 1
        /\ Head(frame[c].command) = "sudo"
        /\ frame[c].supplied.environment = { <<"LANG", "C">> }
        /\ frame[c].env = { <<"PATH", "/usr/bin">>, <<"LANG", "C">> }
        /\ \E i \in 1..Len(log) :
              /\ log[i].kind = "json"
              /\ log[i].timestamp = frame[c].start_time
              /\ log[i].operation = "chmod 755 /tmp/x"

\* The lines of Responses that are 'y' or 'yes' up to letter case and
\* surrounding whitespace.
Affirmative == { <<"y">>, <<" ", "Y", "e", "s", " ">> }

\* The lines of Responses that are 'n', 'no' or empty up to letter case and
\* surrounding whitespace.
Negative == { <<"n">>, <<"N", "O">>, <<>>, <<" ">> }

Recognized == Affirmative \cup Negative

\* request_permission re-prompts on every unrecognized line and returns on the
\* first recognized one, true for an affirmative and false for a negative line.
C14_ReturnsOnFirstRecognized ==
    (gate.pc # "idle" /\ gate.operation.requires_user_approval) =>
        LET n == Len(gate.lines) IN
        /\ gate.pc = "prompt" =>
              /\ \A i \in 1..n : gate.lines[i] \notin Recognized
              /\ gate.prints = HeaderPrints(gate.operation) + n
        /\ gate.pc = "returned" =>
              /\ n >= 1
              /\ \A i \in 1..(n - 1) : gate.lines[i] \notin Recognized
              /\ gate.lines[n] \in Recognized
              /\ gate.result = "True" <=> gate.lines[n] \in Affirmative
              /\ gate.result = "False" <=> gate.lines[n] \in Negative

\* C14 (as stated): when approval is required request_permission keeps
\* re-prompting on unrecognized input and returns only on the first recognized
\* response, true for y/yes and false for n/no/empty line, and it terminates
\* only if a recognized response was supplied.
C14_TerminatesOnlyOnRecognizedResponse ==
    /\ C14_ReturnsOnFirstRecognized
    /\ (gate.pc \in {"returned", "raised"} /\ gate.operation.requires_user_approval)
          => \E i \in 1..Len(gate.lines) : gate.lines[i] \in Recognized

\* The activation f of execute_with_escalation is for an operation that needs
\* escalation and has requires_user_approval false.
Unattended(f) ==
    f.pc # "idle" /\ f.needs_escalation /\ ~f.supplied.requires_user_approval

\* C15: with requires_user_approval false, request_permission returns true at
\* once, having read no line and printed nothing, for every permission tier;
\* an operation that needs escalation and has the flag false never prompts and
\* is handed to Popen with the sudo prefix.
C15_NoApprovalNoPrompt ==
    /\ (gate.pc # "idle" /\ ~gate.operation.requires_user_approval) =>
          /\ gate.pc = "returned"
          /\ gate.result = "True"
          /\ gate.lines = <<>>
          /\ gate.prints = 0
    /\ \A c \in Callers :
          Unattended(frame[c]) =>
              /\ frame[c].pc # "prompt"
              /\ frame[c].granted = "True"
              /\ frame[c].prompts = 0
              /\ frame[c].prints = 0
              /\ frame[c].popen_calls > 0 =>
                    frame[c].command = <<"sudo">> \o frame[c].supplied.command

\* C15 witness: for an ADMINISTRATIVE operation with the flag false
\* request_permission was called and returned true with no line read and
\* nothing printed, and the command ran under sudo to completion.
C15_Witness ==
    \E c \in Callers :
        /\ Unattended(frame[c])
        /\ Done(c)
        /\ frame[c].process = "exited"
        /\ frame[c].gate_calls = 1
        /\ frame[c].granted = "True"
        /\ frame[c].prompts + frame[c].prints = 0
        /\ frame[c].command = <<"sudo", "crontab", "-l">>

\* The session entries whose record reached the file, as the lines written.
WrittenEntries ==
    LET kept == SelectSeq(session_operations, LAMBDA e : e.timestamp \notin write_failed)
    IN [i \in 1..Len(kept) |-> LogEntry(kept[i])]

\* The session history holds one entry per returned call and the file holds,
\* in the same order, the records of those whose write did not fail.
HistoryMatchesLog ==
    /\ Len(session_operations) = Cardinality(returned)
    /\ \A t \in returned : Len(EntriesOf(t)) = 1
    /\ \A i, j \in 1..Len(session_operations) :
          i < j => session_operations[i].timestamp < session_operations[j].timestamp
    /\ JsonLines(log) = WrittenEntries

\* A step leaves the session history alone or appends the entry of the call
\* that returns in this step; a step that changes a list obtained from
\* get_session_history leaves the session history alone.
HistoryStep ==
    /\ \/ session_operations' = session_operations
       \/ /\ Len(session_operations') = Len(session_operations) + 1
          /\ SubSeq(session_operations', 1, Len(session_operations)) = session_operations
          /\ Cardinality(returned') = Cardinality(returned) + 1
    /\ view' # view => session_operations' = session_operations

\* C20: the session history holds exactly one entry per completed
\* execute_with_escalation call, in completion order, and entries are never
\* removed or reordered; the records written to the file are the subsequence
\* of it whose write did not fail (all of it when none failed), in the same
\* order; mutating the list returned by get_session_history does not change
\* the manager's history.
C20_SessionHistoryConsistent ==
    [](HistoryMatchesLog) /\ [][HistoryStep]_vars

\* C20 witness: two calls completed, the write of one record failed, and the
\* caller emptied a non-empty list obtained from get_session_history while the
\* manager still holds both entries.
C20_Witness ==
    /\ view.mutated
    /\ Len(session_operations) = 2
    /\ Cardinality(write_failed) = 1
    /\ Len(JsonLines(log)) = 1

\* The entries _log_operation wrote to the file, in order.
RecordEntries ==
    LET records == SelectSeq(written, LAMBDA w : w.kind = "record")
    IN [i \in 1..Len(records) |-> records[i].entry]

\* The file holds valid record lines followed by lines that are not JSON.
ValidThenCorrupt ==
    /\ \A i \in 1..Len(written) : written[i].kind \in {"record", "text"}
    /\ \A i, j \in 1..Len(written) :
          (i < j /\ written[j].kind = "record") => written[i].kind = "record"

Min(a, b) == IF a <= b THEN a ELSE b

\* The last n of the records written, as the dictionaries that were dumped
LastRecords(n) ==
    [j \in 1..n |-> LogEntryObject(RecordEntries[Len(RecordEntries) - n + j])]

\* C11 (as stated): for a file of N valid record lines followed by M corrupt
\* lines get_audit_summary(limit) reports total_entries = min(N, limit) for
\* every limit >= 0, and the records it counts are the most recent min(N, limit).
C11_TotalIsMinOfRecordsAndLimit ==
    (summary.kind # "none" /\ ValidThenCorrupt) =>
        LET m == Min(Len(RecordEntries), summary.limit) IN
        /\ summary.kind \in {"summary", "missing"}
        /\ summary.total_entries = m
        /\ summary.kind = "summary" => summary.recent_operations = LastRecords(m)

\* The statistics get_audit_summary has to report for the records rs.
StatisticsOf(rs) ==
    [total_entries |-> Len(rs),
     success_count |-> Len(SelectSeq(rs, LAMBDA r : Get(r, ResultKey) = JStr(SuccessText))),
     failure_count |-> Len(SelectSeq(rs, LAMBDA r : Get(r, ResultKey) # JStr(SuccessText))),
     elevated_operations |->
         Len(SelectSeq(rs, LAMBDA r : Get(r, PermissionLevelKey) \notin {JStr(BasicText)}))]

\* Whenever get_audit_summary returns statistics, they are those of the most
\* recent valid records, as many as it counted.
SummaryOverValidRecords ==
    summary.kind = "summary" =>
        /\ summary.total_entries <= Len(RecordEntries)
        /\ summary.recent_operations = LastRecords(summary.total_entries)
        /\ LET stats == StatisticsOf(LastRecords(summary.total_entries)) IN
           /\ summary.success_count = stats.success_count
           /\ summary.failure_count = stats.failure_count
           /\ summary.elevated_operations = stats.elevated_operations

\* C12 (as stated): get_audit_summary skips every line that is not a valid
\* audit record, wherever it stands (cut short, not JSON, JSON that is no
\* record or lacks result or permission_level), and returns the statistics
\* over the valid records, never an error result.
C12_NonRecordLinesSkipped ==
    summary.kind # "none" =>
        /\ summary.kind # "error"
        /\ SummaryOverValidRecords

\* C16: every line _log_operation wrote, stripped and decoded as
\* get_audit_summary decodes it, is a dictionary whose operation,
\* permission_level, result and user equal those of the entry written.
C16_RoundTrip ==
    \A i \in 1..Len(written) :
        written[i].kind = "record" =>
            LET d == Loads(Strip(store[written[i].at]))
                e == written[i].entry
            IN /\ d.ok
               /\ \A key \in {OperationKey, PermissionLevelKey, ResultKey, UserKey} :
                     HasKey(d.val, key)
               /\ Get(d.val, OperationKey) = JStr(e.operation)
               /\ Get(d.val, PermissionLevelKey) = JStr(e.permission_level)
               /\ Get(d.val, ResultKey) = JStr(e.result)
               /\ Get(d.val, UserKey) = JStr(e.user)

\* C16 witness: the entry whose command holds quotes and the entry whose
\* command holds a backslash and a tab were written, and the summary read
\* both back with the quotes in place.
C16_Witness ==
    /\ summary.kind = "summary"
    /\ summary.total_entries = 2
    /\ Len(written) = 2
    /\ written[1].kind = "record" /\ written[1].entry.result = OperationFailedText
    /\ written[2].kind = "record" /\ written[2].entry.result = UserCancelledText
    /\ Get(summary.recent_operations[1], OperationKey) =
          JStr(<<"e", "c", "h", "o", " ", "\"", "h", "i", "\"">>)

\* manage_file_permissions returned.
ManageDone == wrapper.pc = "done" /\ wrapper.name = "manage_file_permissions"

\* The first tokens of the commands manage_file_permissions has to run: chmod
\* when permissions is non-empty, then chown when an owner is given.
ManagePlan ==
    (IF wrapper.args.permissions \notin {None, ""} THEN <<"chmod">> ELSE <<>>)
    \o (IF wrapper.args.owner \notin {None, ""} THEN <<"chown">> ELSE <<>>)

\* manage_file_permissions ran its commands in order as separate calls of
\* execute_with_escalation, stopped at the first result that is not SUCCESS
\* and returned it, and returned SUCCESS only if every command it had to run
\* was attempted and succeeded.
ManageStopsAtFirstFailure ==
    ManageDone =>
        LET n == Len(wrapper.results) IN
        /\ [i \in 1..Len(wrapper.commands) |-> wrapper.commands[i].command[1]] = ManagePlan
        /\ WrapperCalls = n
        /\ \A i \in 1..(n - 1) : wrapper.results[i].result = SUCCESS
        /\ (n >= 1 /\ wrapper.results[n].result # SUCCESS) =>
              /\ wrapper.result = wrapper.results[n].result
              /\ wrapper.message = wrapper.results[n].message
        /\ wrapper.result = SUCCESS <=>
              /\ n = Len(wrapper.commands)
              /\ \A i \in 1..n : wrapper.results[i].result = SUCCESS
        /\ wrapper.result = SUCCESS => wrapper.message = "Permissions updated successfully"

\* C21 (as stated): manage_file_permissions runs chmod and then chown as
\* separate operations, stops at the first one whose outcome is not SUCCESS and
\* returns it, returns SUCCESS only if every attempted command succeeded, and
\* the number of audit records added to the log file equals the number of
\* commands attempted.
C21_OneRecordPerAttemptedCommand ==
    /\ ManageStopsAtFirstFailure
    /\ ManageDone =>
          Len(JsonLines(log)) - Len(JsonLines(wrapper.log_before)) = WrapperCalls

\* C21 (amended): as above, except that the number of entries added to the
\* session history equals the number of commands attempted, and the number of
\* records added to the log file is the number of attempted commands whose
\* audit write did not fail.
C21_OneEntryPerAttemptedCommand ==
    /\ ManageStopsAtFirstFailure
    /\ ManageDone =>
          LET attempted == { f \in 1..Len(session_operations) :
                                 f > Len(wrapper.session_before) }
              failed == { f \in attempted :
                              session_operations[f].timestamp \in write_failed }
          IN /\ Cardinality(attempted) = WrapperCalls
             /\ Len(JsonLines(log)) - Len(JsonLines(wrapper.log_before))
                   = WrapperCalls - Cardinality(failed)

\* C21 witness: chmod succeeded, chown was attempted and failed, its result
\* was returned, and the audit write of one of the two raised.
C21_Witness ==
    /\ ManageDone
    /\ Len(wrapper.results) = 2
    /\ wrapper.commands[2].command[1] = "chown"
    /\ wrapper.results[1].result = SUCCESS
    /\ wrapper.result = OPERATION_FAILED
    /\ Cardinality(write_failed) = 1

\* The wrapper was called with input it rejects: install_package with a
\* package manager other than pip and conda, or execute_script with a script
\* that is not readable.
RejectedInput ==
    \/ /\ wrapper.name = "install_package"
       /\ wrapper.args.package_manager \notin {"pip", "conda"}
    \/ /\ wrapper.name = "execute_script"
       /\ ~wrapper.args.access

\* C22: a wrapper called with input it rejects has returned OPERATION_FAILED
\* (install_package) or PERMISSION_DENIED (execute_script) without calling
\* execute_with_escalation: no call was started, so nothing was prompted or
\* spawned, and the log file and the session history are as they were.
C22_RejectedInputChangesNothing ==
    RejectedInput =>
        /\ wrapper.pc = "done"
        /\ wrapper.rejected
        /\ wrapper.result = IF wrapper.name = "install_package" THEN OPERATION_FAILED
                            ELSE PERMISSION_DENIED
        /\ calls = wrapper.calls_before
        /\ log = wrapper.log_before
        /\ session_operations = wrapper.session_before
        /\ \A field \in {"pc", "start_time", "gate_calls", "prompts", "prints",
                         "popen_calls", "log_calls"} :
              frame["a"][field] = wrapper.frame_before[field]

\* C22 witness: after a call that left a record in the file and an entry in
\* the session history, execute_script was called with an unreadable script
\* and returned PERMISSION_DENIED.
C22_Witness ==
    /\ wrapper.rejected
    /\ wrapper.name = "execute_script"
    /\ wrapper.result = PERMISSION_DENIED
    /\ Len(session_operations) = 1
    /\ Len(JsonLines(log)) = 1
    /\ frame["a"].popen_calls = 1

====
